---- MODULE Spec2Model ----
(***************************************************************************)
(* Model of the photo gallery hook src/src/hooks/usePhotoGallery_new.ts    *)
(* (usePhotoGallery: takePhoto, savePicture, deletePhoto, loadSaved) and   *)
(* of its caller Tab1 (src/unnamed/part_000).                              *)
(*                                                                         *)
(* Strings are sequences of tokens; "/" is a token of its own so that      *)
(* lastIndexOf('/') and substr are computed as the code computes them.     *)
(* Every await of the code is a suspension point: an operation is a        *)
(* record in ops whose pc names the call it is waiting for.  A call that   *)
(* the code does not await (Preferences.set) is a request in flight in     *)
(* pendingSets; it lands or fails at any later moment.                     *)
(***************************************************************************)
EXTENDS Integers, Sequences, FiniteSets, TLC

VARIABLES platform, photos, prefs, pendingSets, fs, clock, ops, last

vars == <<platform, photos, prefs, pendingSets, fs, clock, ops, last>>

(* ------------------------------ bounds --------------------------------- *)
MaxClock == 2
MaxPhotos == 2
MaxOps == 2
MaxPending == 1

Payloads == {"jpegA"}

(* ------------------------------ strings -------------------------------- *)
PHOTO_STORAGE == "photos"

Undefined == <<"<undefined>">>

Digit(d) == <<"0", "1", "2", "3", "4", "5", "6", "7", "8", "9">>[d + 1]

RECURSIVE NumToStr(_)
NumToStr(n) == IF n < 10 THEN <<Digit(n)>>
               ELSE NumToStr(n \div 10) \o <<Digit(n % 10)>>

\* Date.now() + '.jpeg'
FileNameOf(now) == NumToStr(now) \o <<".", "jpeg">>

\* variant: String.prototype.indexOf, the first occurrence
LastIndexOf_First(s, c) ==
    LET hits == {i \in 1..Len(s) : s[i] = c}
    IN IF hits = {} THEN -1
       ELSE (CHOOSE i \in hits : \A j \in hits : i <= j) - 1

\* String.prototype.lastIndexOf, 0-based, -1 when the character is absent
LastIndexOf(s, c) ==
    LET hits == {i \in 1..Len(s) : s[i] = c}
    IN IF hits = {} THEN -1
       ELSE (CHOOSE i \in hits : \A j \in hits : j <= i) - 1

\* String.prototype.substr(start) with a 0-based start
Substr(s, start) == SubSeq(s, start + 1, Len(s))

\* photo.filepath.substr(photo.filepath.lastIndexOf('/') + 1)
DeleteFileName(filepath) == Substr(filepath, LastIndexOf(filepath, "/") + 1)

\* savedFile.uri of Filesystem.writeFile into Directory.Data (native)
DataDirUri == <<"file:", "/", "/", "/", "data", "/", "files", "/">>
SavedUri(fileName) == DataDirUri \o fileName

\* Capacitor.convertFileSrc: the 'file://' prefix rewritten to HTTP
ConvertFileSrc(uri) ==
    IF Len(uri) >= 3 /\ SubSeq(uri, 1, 3) = <<"file:", "/", "/">>
    THEN <<"http:", "/", "/", "localhost", "/", "_capacitor_file_">>
             \o SubSeq(uri, 4, Len(uri))
    ELSE uri

\* `data:image/jpeg;base64,${file.data}`
DataUriPrefix == <<"data:image/jpeg;base64,">>
LoadedWebviewPath(data) == DataUriPrefix \o data

(* ------------------------------ camera --------------------------------- *)
\* The Photo that Camera.getPhoto resolves with for a shot of payload p
NoPhoto == [path |-> Undefined, webPath |-> Undefined, payload |-> "none"]
CameraPhoto(p) ==
    [path    |-> IF platform = "hybrid"
                 THEN <<"file:", "/", "/", "/", "cache", "/", p>>
                 ELSE Undefined,
     webPath |-> <<"blob:", p>>,
     payload |-> p]

\* Filesystem.readFile({path: photo.path}).data : the base64 of the capture
NativeFileData(photo) == <<photo.payload>>

\* base64FromPath: FileReader.readAsDataURL of the fetched blob
Base64FromPathResult(photo) == DataUriPrefix \o <<photo.payload>>

(* ------------------------------- JSON ---------------------------------- *)
\* JSON.stringify of one UserPhoto: an undefined member is left out
StringifyPhoto(p) ==
    <<  <<"filepath", p.filepath>>  >>
      \o (IF p.webviewPath = Undefined THEN <<>>
          ELSE <<  <<"webviewPath", p.webviewPath>>  >>)

JSONStringify(list) == [i \in 1..Len(list) |-> StringifyPhoto(list[i])]

Member(obj, key) ==
    LET hits == {i \in 1..Len(obj) : obj[i][1] = key}
    IN IF hits = {} THEN Undefined
       ELSE obj[CHOOSE i \in hits : \A j \in hits : j <= i][2]

\* variant: only the filepath of a stored entry is taken over
ParsePhoto_FilepathOnly(obj) == [filepath    |-> Member(obj, "filepath"),
                                 webviewPath |-> Undefined]

ParsePhoto(obj) == [filepath    |-> Member(obj, "filepath"),
                    webviewPath |-> Member(obj, "webviewPath")]

\* variant: the parsed array comes out in reverse order
JSONParse_Reversed(text) ==
    [i \in 1..Len(text) |-> ParsePhoto(text[Len(text) + 1 - i])]

JSONParse(text) == [i \in 1..Len(text) |-> ParsePhoto(text[i])]

(* --------------------------- state helpers ----------------------------- *)
NoPrefs == [k \in {} |-> <<>>]
NoFiles == [n \in {} |-> <<>>]

\* History, not program state: the operation that resolved last, while no
\* operation has been invoked since.  For a loadSaved, list is the list it
\* set; for a takePhoto, list is the list it set, filepath the filepath of
\* its record and data the payload it wrote.
\* runs counts the loadSaved runs that resolved in a row, up to two.
NoLast == [kind |-> "none", list |-> <<>>, filepath |-> Undefined,
           data |-> <<>>, runs |-> 0]
LastLoad(list, before) ==
    [NoLast EXCEPT !.kind = "load", !.list = list,
                   !.runs = IF before.kind = "load" THEN 2 ELSE 1]
LastTake(list, filepath, data) ==
    [NoLast EXCEPT !.kind = "take", !.list = list, !.filepath = filepath,
                   !.data = data]

\* Preferences.set({key, value}) carried out
PutPref(store, key, value) ==
    [k \in (DOMAIN store) \cup {key} |-> IF k = key THEN value ELSE store[k]]

\* variant: the records in front of the target, photos.slice(0, indexOf)
RECURSIVE FilterOut_Before(_, _)
FilterOut_Before(list, filepath) ==
    IF list = <<>> THEN <<>>
    ELSE IF Head(list).filepath # filepath
         THEN <<Head(list)>> \o FilterOut_Before(Tail(list), filepath)
         ELSE <<>>

\* photos.filter((p) => p.filepath !== photo.filepath)
RECURSIVE FilterOut(_, _)
FilterOut(list, filepath) ==
    IF list = <<>> THEN <<>>
    ELSE IF Head(list).filepath # filepath
         THEN <<Head(list)>> \o FilterOut(Tail(list), filepath)
         ELSE FilterOut(Tail(list), filepath)

\* variant: the new photo is put at the end, [...photos, savedFileImage]
NewPhotosOfTake_Appended(saved, list) == list \o <<saved>>

\* [savedFileImage, ...photos]
NewPhotosOfTake(saved, list) == <<saved>> \o list

\* the UserPhoto that savePicture returns
SavedPhoto(photo, fileName) ==
    IF platform = "hybrid"
    THEN [filepath    |-> SavedUri(fileName),
          webviewPath |-> ConvertFileSrc(SavedUri(fileName))]
    ELSE [filepath    |-> fileName,
          webviewPath |-> photo.webPath]

SetRequest(list) == [key |-> PHOTO_STORAGE, value |-> JSONStringify(list)]

WriteFile(files, name, data) ==
    [n \in (DOMAIN files) \cup {name} |-> IF n = name THEN data ELSE files[n]]

RemoveFile(files, name) == [n \in (DOMAIN files) \ {name} |-> files[n]]

Slots == 1..MaxOps

IdleOp == [kind |-> "idle", pc |-> "idle", photos |-> <<>>, photo |-> NoPhoto,
           fileName |-> <<>>, data |-> <<>>, target |-> Undefined,
           list |-> <<>>, idx |-> 0, over |-> FALSE]

Finished(o) == o.pc \in {"idle", "resolved", "rejected"}
InFlight(o) == ~Finished(o)

NumInFlight == Cardinality({i \in Slots : InFlight(ops[i])})

TakeInFlight == \E j \in Slots : ops[j].kind = "take" /\ InFlight(ops[j])

\* the slot a newly invoked operation takes
FreeSlot(i) == /\ Finished(ops[i])
               /\ \A j \in Slots : j < i => InFlight(ops[j])

\* the operation's promise is settled: resolved or rejected.  What stays of
\* the operation is history: its kind, the photos its closure held, and
\* whether it was invoked while a takePhoto was in flight
Settle(i, outcome) ==
    [ops EXCEPT ![i] = [IdleOp EXCEPT !.kind = ops[i].kind,
                                      !.photos = ops[i].photos,
                                      !.over = ops[i].over,
                                      !.pc = outcome]]

(* ------------------------------- Init ---------------------------------- *)
\* usePhotoGallery mounted on a fresh device: useState([]) and the effect
\* has called loadSaved, which waits for Preferences.get
LoadOp == [IdleOp EXCEPT !.kind = "load", !.pc = "get"]

Init ==
    /\ platform \in {"hybrid", "web"}
    /\ photos = <<>>
    /\ prefs = NoPrefs
    /\ pendingSets = <<>>
    /\ fs = NoFiles
    /\ clock = 1
    /\ ops = [i \in Slots |-> IF i = 1 THEN LoadOp ELSE IdleOp]
    /\ last = NoLast

(* ------------------------- Preferences requests ------------------------ *)
\* a Preferences.set request is carried out
LandSet ==
    /\ pendingSets # <<>>
    /\ prefs' = PutPref(prefs, Head(pendingSets).key, Head(pendingSets).value)
    /\ pendingSets' = Tail(pendingSets)
    /\ last' = IF last.kind = "load" THEN NoLast ELSE last
    /\ UNCHANGED <<platform, photos, fs, clock, ops>>

\* a Preferences.set request fails; nobody holds its promise
FailSet ==
    /\ pendingSets # <<>>
    /\ pendingSets' = Tail(pendingSets)
    /\ UNCHANGED <<platform, photos, prefs, fs, clock, ops, last>>

(* ------------------------------ takePhoto ------------------------------ *)
\* the camera button of Tab1 calls takePhoto(): Camera.getPhoto is awaited;
\* the closure holds the photos of the render it was created in
TakePhotoCall(i) ==
    /\ FreeSlot(i)
    /\ Len(photos) < MaxPhotos
    /\ Len(pendingSets) < MaxPending
    /\ ops' = [ops EXCEPT ![i] = [IdleOp EXCEPT !.kind = "take",
                                                !.pc = "getPhoto",
                                                !.photos = photos,
                                                !.over = TakeInFlight]]
    /\ last' = NoLast
    /\ UNCHANGED <<platform, photos, prefs, pendingSets, fs, clock>>

\* Camera.getPhoto resolves with a shot of payload p; Date.now() is now,
\* not before the last value it gave; fileName = Date.now() + '.jpeg';
\* savePicture starts and awaits Filesystem.readFile (hybrid) or
\* base64FromPath (web)
GetPhotoOk(i, p, now) ==
    /\ ops[i].kind = "take" /\ ops[i].pc = "getPhoto"
    /\ now >= clock
    /\ clock' = now
    /\ ops' = [ops EXCEPT ![i].photo = CameraPhoto(p),
                          ![i].fileName = FileNameOf(now),
                          ![i].pc = IF platform = "hybrid" THEN "readFile"
                                    ELSE "base64FromPath"]
    /\ UNCHANGED <<platform, photos, prefs, pendingSets, fs, last>>

\* Camera.getPhoto rejects (capture cancelled, permission denied)
GetPhotoFail(i) ==
    /\ ops[i].kind = "take" /\ ops[i].pc = "getPhoto"
    /\ ops' = Settle(i, "rejected")
    /\ UNCHANGED <<platform, photos, prefs, pendingSets, fs, clock, last>>

\* hybrid: Filesystem.readFile({path: photo.path}) resolves
ReadFileOk(i) ==
    /\ ops[i].kind = "take" /\ ops[i].pc = "readFile"
    /\ ops' = [ops EXCEPT ![i].data = NativeFileData(ops[i].photo),
                          ![i].pc = "writeFile"]
    /\ UNCHANGED <<platform, photos, prefs, pendingSets, fs, clock, last>>

ReadFileFail(i) ==
    /\ ops[i].kind = "take" /\ ops[i].pc = "readFile"
    /\ ops' = Settle(i, "rejected")
    /\ UNCHANGED <<platform, photos, prefs, pendingSets, fs, clock, last>>

\* web: base64FromPath(photo.webPath) resolves with the reader's string
\* result (fetch, response.blob() and reader.onload have all succeeded)
Base64Ok(i) ==
    /\ ops[i].kind = "take" /\ ops[i].pc = "base64FromPath"
    /\ ops' = [ops EXCEPT ![i].data = Base64FromPathResult(ops[i].photo),
                          ![i].pc = "writeFile"]
    /\ UNCHANGED <<platform, photos, prefs, pendingSets, fs, clock, last>>

\* web: base64FromPath rejects: fetch or blob() fails, reader.onerror, or
\* the reader's result is not a string
Base64Fail(i) ==
    /\ ops[i].kind = "take" /\ ops[i].pc = "base64FromPath"
    /\ ops' = Settle(i, "rejected")
    /\ UNCHANGED <<platform, photos, prefs, pendingSets, fs, clock, last>>

\* variant: the array handed to Preferences.set is the new record followed
\* by the stored index, read again
WriteFileOk_WritesFromIndex(i) ==
    /\ ops[i].kind = "take" /\ ops[i].pc = "writeFile"
    /\ LET saved == SavedPhoto(ops[i].photo, ops[i].fileName)
           newPhotos == NewPhotosOfTake(saved, ops[i].photos)
           stored == IF PHOTO_STORAGE \in DOMAIN prefs
                     THEN JSONParse(prefs[PHOTO_STORAGE]) ELSE <<>>
       IN /\ fs' = WriteFile(fs, ops[i].fileName, ops[i].data)
          /\ photos' = newPhotos
          /\ pendingSets' = Append(pendingSets,
                                SetRequest(<<saved>> \o stored))
          /\ ops' = Settle(i, "resolved")
          /\ last' = LastTake(newPhotos, saved.filepath, ops[i].data)
    /\ UNCHANGED <<platform, prefs, clock>>

\* variant: setPhotos with an updater, the new record followed by the
\* in-memory list of the moment
WriteFileOk_UpdatesCurrentList(i) ==
    /\ ops[i].kind = "take" /\ ops[i].pc = "writeFile"
    /\ LET saved == SavedPhoto(ops[i].photo, ops[i].fileName)
           newPhotos == NewPhotosOfTake(saved, photos)
       IN /\ fs' = WriteFile(fs, ops[i].fileName, ops[i].data)
          /\ photos' = newPhotos
          /\ pendingSets' = Append(pendingSets, SetRequest(newPhotos))
          /\ ops' = Settle(i, "resolved")
          /\ last' = LastTake(newPhotos, saved.filepath, ops[i].data)
    /\ UNCHANGED <<platform, prefs, clock>>

\* Filesystem.writeFile resolves; savePicture returns the UserPhoto and
\* takePhoto runs to its end: setPhotos(newPhotos), Preferences.set(...)
\* without await
WriteFileOk(i) ==
    /\ ops[i].kind = "take" /\ ops[i].pc = "writeFile"
    /\ LET saved == SavedPhoto(ops[i].photo, ops[i].fileName)
           newPhotos == NewPhotosOfTake(saved, ops[i].photos)
       IN /\ fs' = WriteFile(fs, ops[i].fileName, ops[i].data)
          /\ photos' = newPhotos
          /\ pendingSets' = Append(pendingSets, SetRequest(newPhotos))
          /\ ops' = Settle(i, "resolved")
          /\ last' = LastTake(newPhotos, saved.filepath, ops[i].data)
    /\ UNCHANGED <<platform, prefs, clock>>

\* variant: takePhoto sets the list and the index before the write is known
\* to have succeeded
WriteFileFail_Prepends(i) ==
    /\ ops[i].kind = "take" /\ ops[i].pc = "writeFile"
    /\ LET saved == SavedPhoto(ops[i].photo, ops[i].fileName)
           newPhotos == NewPhotosOfTake(saved, ops[i].photos)
       IN /\ photos' = newPhotos
          /\ pendingSets' = Append(pendingSets, SetRequest(newPhotos))
    /\ ops' = Settle(i, "rejected")
    /\ UNCHANGED <<platform, prefs, fs, clock, last>>

WriteFileFail(i) ==
    /\ ops[i].kind = "take" /\ ops[i].pc = "writeFile"
    /\ ops' = Settle(i, "rejected")
    /\ UNCHANGED <<platform, photos, prefs, pendingSets, fs, clock, last>>

(* ----------------------------- deletePhoto ----------------------------- *)
\* the Delete button of Tab1's action sheet calls deletePhoto(photoToDelete),
\* photoToDelete being a photo of the rendered list: newPhotos is filtered,
\* Preferences.set(...) is called without await, Filesystem.deleteFile is
\* awaited
DeletePhotoCall(i, k) ==
    /\ FreeSlot(i)
    /\ k \in 1..Len(photos)
    /\ Len(pendingSets) < MaxPending
    /\ LET photo == photos[k]
           newPhotos == FilterOut(photos, photo.filepath)
       IN /\ pendingSets' = Append(pendingSets, SetRequest(newPhotos))
          /\ ops' = [ops EXCEPT ![i] =
                       [IdleOp EXCEPT !.kind = "delete",
                                      !.pc = "deleteFile",
                                      !.photos = photos,
                                      !.target = photo.filepath,
                                      !.fileName = DeleteFileName(photo.filepath),
                                      !.list = newPhotos]]
    /\ last' = NoLast
    /\ UNCHANGED <<platform, photos, prefs, fs, clock>>

\* Filesystem.deleteFile resolves; setPhotos(newPhotos)
DeleteFileOk(i) ==
    /\ ops[i].kind = "delete" /\ ops[i].pc = "deleteFile"
    /\ ops[i].fileName \in DOMAIN fs
    /\ fs' = RemoveFile(fs, ops[i].fileName)
    /\ photos' = ops[i].list
    /\ ops' = Settle(i, "resolved")
    /\ last' = NoLast
    /\ UNCHANGED <<platform, prefs, pendingSets, clock>>

\* Filesystem.deleteFile rejects (no such file, or a storage failure):
\* deletePhoto rejects before setPhotos
DeleteFileFail(i) ==
    /\ ops[i].kind = "delete" /\ ops[i].pc = "deleteFile"
    /\ ops' = Settle(i, "rejected")
    /\ UNCHANGED <<platform, photos, prefs, pendingSets, fs, clock, last>>

(* ------------------------------ loadSaved ------------------------------ *)
\* variant: no test for an absent value; the absent value parses into one
\* record without fields
PhotosInPreferences_NoNullTest ==
    JSONParse(IF PHOTO_STORAGE \in DOMAIN prefs THEN prefs[PHOTO_STORAGE]
              ELSE << <<>> >>)

\* value ? JSON.parse(value) : []
PhotosInPreferences ==
    IF PHOTO_STORAGE \in DOMAIN prefs THEN JSONParse(prefs[PHOTO_STORAGE])
    ELSE <<>>

\* variant: loadSaved stores the list it has read back into Preferences
LoadGetOk_StoresBack(i) ==
    /\ ops[i].kind = "load" /\ ops[i].pc = "get"
    /\ LET list == PhotosInPreferences
       IN /\ pendingSets' = Append(pendingSets, SetRequest(list))
          /\ IF platform # "hybrid" /\ list # <<>>
             THEN /\ ops' = [ops EXCEPT ![i].list = list, ![i].idx = 1,
                                        ![i].pc = "loadRead"]
                  /\ UNCHANGED <<photos, last>>
             ELSE /\ ops' = Settle(i, "resolved")
                  /\ photos' = list
                  /\ last' = LastLoad(list, last)
    /\ UNCHANGED <<platform, prefs, fs, clock>>

\* Preferences.get resolves.  On the web the loop awaits the first
\* Filesystem.readFile; with nothing to read, setPhotos(photosInPreferences)
LoadGetOk(i) ==
    /\ ops[i].kind = "load" /\ ops[i].pc = "get"
    /\ LET list == PhotosInPreferences
       IN IF platform # "hybrid" /\ list # <<>>
          THEN /\ ops' = [ops EXCEPT ![i].list = list, ![i].idx = 1,
                                     ![i].pc = "loadRead"]
               /\ UNCHANGED <<photos, last>>
          ELSE /\ ops' = Settle(i, "resolved")
               /\ photos' = list
               /\ last' = LastLoad(list, last)
    /\ UNCHANGED <<platform, prefs, pendingSets, fs, clock>>

LoadGetFail(i) ==
    /\ ops[i].kind = "load" /\ ops[i].pc = "get"
    /\ ops' = Settle(i, "rejected")
    /\ UNCHANGED <<platform, photos, prefs, pendingSets, fs, clock, last>>

\* web: Filesystem.readFile of photo number idx resolves and its webviewPath
\* is set; after the last photo, setPhotos(photosInPreferences)
LoadReadOk(i) ==
    /\ ops[i].kind = "load" /\ ops[i].pc = "loadRead"
    /\ ops[i].list[ops[i].idx].filepath \in DOMAIN fs
    /\ LET idx == ops[i].idx
           file == fs[ops[i].list[idx].filepath]
           list == [ops[i].list EXCEPT
                       ![idx].webviewPath = LoadedWebviewPath(file)]
       IN IF idx < Len(list)
          THEN /\ ops' = [ops EXCEPT ![i].list = list, ![i].idx = idx + 1]
               /\ UNCHANGED <<photos, last>>
          ELSE /\ ops' = Settle(i, "resolved")
               /\ photos' = list
               /\ last' = LastLoad(list, last)
    /\ UNCHANGED <<platform, prefs, pendingSets, fs, clock>>

\* web: Filesystem.readFile rejects (no such file, or a storage failure)
LoadReadFail(i) ==
    /\ ops[i].kind = "load" /\ ops[i].pc = "loadRead"
    /\ ops' = Settle(i, "rejected")
    /\ UNCHANGED <<platform, photos, prefs, pendingSets, fs, clock, last>>

\* The process ends and the application is started again: the hook is
\* mounted with useState([]) and its effect calls loadSaved.  Operations in
\* flight end with the process; a Preferences.set request has been carried
\* out or has been lost by then.
Restart ==
    /\ pendingSets = <<>>
    /\ photos' = <<>>
    /\ ops' = [i \in Slots |-> IF i = 1 THEN LoadOp ELSE IdleOp]
    /\ UNCHANGED <<platform, prefs, pendingSets, fs, clock, last>>

(* -------------------------- specifications ----------------------------- *)
Progress ==
    \/ LandSet
    \/ FailSet
    \/ Restart
    \/ \E i \in Slots :
          \/ \E p \in Payloads, now \in 1..MaxClock : GetPhotoOk(i, p, now)
          \/ GetPhotoFail(i)
          \/ ReadFileOk(i)
          \/ ReadFileFail(i)
          \/ Base64Ok(i)
          \/ Base64Fail(i)
          \/ WriteFileOk(i)
          \/ WriteFileFail(i)
          \/ DeleteFileOk(i)
          \/ DeleteFileFail(i)
          \/ LoadGetOk(i)
          \/ LoadGetFail(i)
          \/ LoadReadOk(i)
          \/ LoadReadFail(i)

\* Tab1 as written: nothing keeps a button from being pressed while an
\* operation is in flight
Next ==
    \/ Progress
    \/ \E i \in Slots : TakePhotoCall(i)
    \/ \E i \in Slots, k \in 1..MaxPhotos : DeletePhotoCall(i, k)

Spec == Init /\ [][Next]_vars

\* a caller that serializes its calls: an operation is invoked only when none
\* is in flight
Serialized == NumInFlight = 0

SerialNext ==
    \/ Progress
    \/ Serialized /\ \E i \in Slots : TakePhotoCall(i)
    \/ Serialized /\ \E i \in Slots, k \in 1..MaxPhotos : DeletePhotoCall(i, k)

SerialSpec == Init /\ [][SerialNext]_vars

\* Tab1 as written, in the runs where only the camera button is pressed, it
\* is pressed while at most one operation is in flight (two operations
\* overlap, never three), and every call of the Camera, the Filesystem and
\* Preferences succeeds
RaceNext ==
    \/ LandSet
    \/ Restart
    \/ \E i \in Slots :
          \/ \E p \in Payloads, now \in 1..MaxClock : GetPhotoOk(i, p, now)
          \/ ReadFileOk(i)
          \/ Base64Ok(i)
          \/ WriteFileOk(i)
          \/ LoadGetOk(i)
          \/ LoadReadOk(i)
    \/ NumInFlight <= 1 /\ \E i \in Slots : TakePhotoCall(i)

RaceSpec == Init /\ [][RaceNext]_vars

(* ------------------------------ properties ---------------------------- *)
Filepaths(list) == [k \in 1..Len(list) |-> list[k].filepath]

\* the filepaths of the array stored under "photos", read off the stored
\* text; empty when the key is absent
IndexFilepaths ==
    IF PHOTO_STORAGE \in DOMAIN prefs
    THEN [k \in 1..Len(prefs[PHOTO_STORAGE]) |-> prefs[PHOTO_STORAGE][k][1][2]]
    ELSE <<>>

Holds(list, filepath) == \E k \in 1..Len(list) : list[k] = filepath

\* the name of the Blob Store object of a record that a capture created
ObjectOf(filepath) ==
    IF platform = "hybrid"
    THEN SubSeq(filepath, Len(DataDirUri) + 1, Len(filepath))
    ELSE filepath

\* this step settles operation i of the given kind
Resolves(i, kind) ==
    /\ ops[i].kind = kind /\ InFlight(ops[i])
    /\ ops'[i].kind = kind /\ ops'[i].pc = "resolved"

\* this step is a step of operation i of the given kind that does not
\* resolve it
StepsUnresolved(i, kind) ==
    /\ ops[i].kind = kind /\ InFlight(ops[i])
    /\ ops'[i].kind = kind /\ ops'[i] # ops[i]
    /\ ops'[i].pc # "resolved"

\* C1: with serialized calls, when the promise of takePhoto or deletePhoto
\* resolves, the in-memory list and the list stored under "photos" have the
\* same filepaths in the same order.
C1_ListEqualsIndexAtResolve ==
    [][\A i \in Slots :
          (Resolves(i, "take") \/ Resolves(i, "delete"))
              => Filepaths(photos') = IndexFilepaths']_vars

\* C2: a takePhoto that fails before the blob write has succeeded (camera,
\* payload read or encoding, write) leaves the in-memory list and the index as
\* they were when it started: no step of it up to and including the failure
\* changes the list, the stored value, the set requests or the files.
C2_FailedCaptureChangesNothing ==
    [][\A i \in Slots :
          StepsUnresolved(i, "take")
              => /\ photos = ops[i].photos
                 /\ photos' = photos
                 /\ prefs' = prefs
                 /\ pendingSets' = pendingSets
                 /\ fs' = fs]_vars

C2_Witness ==
    \E i \in Slots : /\ ops[i].kind = "take" /\ ops[i].pc = "rejected"
                     /\ photos # <<>>
                     /\ IndexFilepaths = Filepaths(photos)

\* C3: when deletePhoto(P) resolves, no record of the in-memory list has P's
\* filepath, the stored index (what a restart loads) does not hold it, and
\* the Blob Store has no object of P's name.
C3_DeleteRemovesFromAllTiers ==
    [][\A i \in Slots :
          Resolves(i, "delete")
              => /\ ~Holds(Filepaths(photos'), ops[i].target)
                 /\ ~Holds(IndexFilepaths', ops[i].target)
                 /\ ObjectOf(ops[i].target) \notin DOMAIN fs']_vars

\* C4: when Filesystem.deleteFile fails inside deletePhoto(P), deletePhoto
\* still completes and P is gone from the in-memory list and from the stored
\* index.
C4_FailedBlobDeleteStillCompletes ==
    [][\A i \in Slots :
          DeleteFileFail(i)
              => /\ ops'[i].pc = "resolved"
                 /\ ~Holds(Filepaths(photos'), ops[i].target)
                 /\ ~Holds(IndexFilepaths', ops[i].target)]_vars

\* C5: with serialized calls, a takePhoto that resolves puts exactly one
\* record, its own, at the head of the list and keeps the records that were
\* there in their order; so captures C1 then C2 from L give [C2, C1] \o L.
C5_CapturePrepends ==
    [][\A i \in Slots :
          Resolves(i, "take")
              => /\ Len(photos') = Len(photos) + 1
                 /\ Tail(photos') = photos
                 /\ ObjectOf(Head(photos').filepath) = ops[i].fileName]_vars

C5_Witness ==
    /\ \E i \in Slots : ops[i].kind = "take" /\ ops[i].pc = "resolved"
    /\ Len(photos) = 2
    /\ photos[1].filepath # photos[2].filepath

\* C6: a loadSaved that runs right after a takePhoto has resolved (a restart
\* with no operation in between) yields a list with a record of the captured
\* filepath; on the web its webviewPath is "data:image/jpeg;base64," followed
\* by the data the capture wrote.
C6_RoundTrip ==
    [][\A i \in Slots :
          (Resolves(i, "load") /\ last.kind = "take")
              => \E k \in 1..Len(photos') :
                    /\ photos'[k].filepath = last.filepath
                    /\ platform = "web"
                         => photos'[k].webviewPath
                              = DataUriPrefix \o last.data]_vars

\* C7: when a takePhoto on the web resolves that started from an empty
\* gallery, the Blob Store holds the encoded payload under "<timestamp>.jpeg",
\* the index holds exactly that filepath, and the in-memory list is the one
\* record of that filepath whose webviewPath is the capture's webPath.
C7_BrowserCaptureFromEmpty ==
    [][\A i \in Slots :
          (/\ Resolves(i, "take")
           /\ platform = "web"
           /\ ops[i].photos = <<>>
           /\ fs = NoFiles
           /\ IndexFilepaths = <<>>)
              => \E t \in 1..MaxClock :
                    LET name == NumToStr(t) \o <<".", "jpeg">>
                    IN /\ DOMAIN fs' = {name}
                       /\ fs'[name] = DataUriPrefix \o <<ops[i].photo.payload>>
                       /\ IndexFilepaths' = <<name>>
                       /\ photos' = <<[filepath |-> name,
                                       webviewPath |-> ops[i].photo.webPath]>>
      ]_vars

\* C8: a loadSaved that resolves sets the in-memory list to records whose
\* filepaths are those of the stored index, in the same order and number, on
\* both platforms.
C8_LoadKeepsIndexOrder ==
    [][\A i \in Slots :
          Resolves(i, "load") => Filepaths(photos') = IndexFilepaths']_vars

C8_Witness ==
    /\ \E i \in Slots : ops[i].kind = "load" /\ ops[i].pc = "resolved"
    /\ Len(photos) = 2
    /\ photos[1].filepath # photos[2].filepath

\* C9: when the key "photos" is absent, the answer of Preferences.get ends
\* loadSaved at once: it resolves with an empty list and awaits no
\* Filesystem.readFile.
C9_EmptyStart ==
    [][\A i \in Slots :
          (LoadGetOk(i) /\ PHOTO_STORAGE \notin DOMAIN prefs)
              => /\ ops'[i].pc = "resolved"
                 /\ photos' = <<>>]_vars

C9_Witness ==
    /\ \E i \in Slots : ops[i].kind = "load" /\ ops[i].pc = "resolved"
    /\ PHOTO_STORAGE \notin DOMAIN prefs
    /\ photos = <<>>

\* C10: a loadSaved that resolves after another loadSaved has resolved, with
\* no takePhoto or deletePhoto invoked in between, sets the very list the
\* first one set (filepaths, webviewPaths, order); and no step of loadSaved
\* changes the stored index, the set requests or the files.
C10_LoadIdempotent ==
    [][\A i \in Slots :
          /\ (Resolves(i, "load") /\ last.kind = "load")
                => photos' = last.list
          /\ (ops[i].kind = "load" /\ InFlight(ops[i])
                /\ ops'[i].kind = "load" /\ ops'[i] # ops[i])
                => /\ prefs' = prefs
                   /\ pendingSets' = pendingSets
                   /\ fs' = fs]_vars

C10_Witness ==
    /\ \E i \in Slots : ops[i].kind = "load" /\ ops[i].pc = "resolved"
    /\ last.kind = "load" /\ last.runs = 2
    /\ Len(last.list) = 2
    /\ photos = last.list

\* the webviewPath member of entry k of the stored array, read off the
\* stored text; Undefined when the entry has none
IndexWebviewPath(k) ==
    LET obj == prefs[PHOTO_STORAGE][k]
    IN IF Len(obj) >= 2 /\ obj[2][1] = "webviewPath" THEN obj[2][2]
       ELSE Undefined

\* C11 as stated: every record that loadSaved sets has a webviewPath
\* recomputed from the Blob Store on the web and no webviewPath on the native
\* platform, whatever the index entry carried.
C11_LoadNeverTrustsStoredPath ==
    [][\A i \in Slots :
          Resolves(i, "load")
              => \A k \in 1..Len(photos') :
                    photos'[k].webviewPath
                      = IF platform = "web"
                        THEN DataUriPrefix \o fs'[photos'[k].filepath]
                        ELSE Undefined]_vars

\* C11 as amended: on the web every record that loadSaved sets has the
\* webviewPath recomputed from the Blob Store, whatever the index entry
\* carried; on the native platform it has the webviewPath that its index
\* entry carries.
C11_LoadedWebviewPath ==
    [][\A i \in Slots :
          Resolves(i, "load")
              => \A k \in 1..Len(photos') :
                    photos'[k].webviewPath
                      = IF platform = "web"
                        THEN DataUriPrefix \o fs'[photos'[k].filepath]
                        ELSE IndexWebviewPath(k)']_vars

C11_Witness ==
    /\ \E i \in Slots : ops[i].kind = "load" /\ ops[i].pc = "resolved"
    /\ platform = "hybrid"
    /\ photos # <<>>
    /\ photos[1].webviewPath # Undefined
    /\ photos[1].webviewPath = IndexWebviewPath(1)

NoDuplicates(list) ==
    \A j, k \in 1..Len(list) : list[j] = list[k] => j = k

\* C12: in every reachable state no two records of the in-memory list, and
\* no two entries of the stored index, have the same filepath.
C12_UniqueFilepaths ==
    /\ NoDuplicates(Filepaths(photos))
    /\ NoDuplicates(IndexFilepaths)

\* C13: no failure is swallowed by takePhoto or deletePhoto: a step in
\* which a call of the Camera, the Filesystem or Preferences made by the
\* operation fails, the Preferences.set of the updated list included, rejects
\* the promise of an operation.
C13_NoFailureSwallowed ==
    [][/\ \A i \in Slots :
             (\/ GetPhotoFail(i) \/ ReadFileFail(i) \/ Base64Fail(i)
              \/ WriteFileFail(i) \/ DeleteFileFail(i))
                 => ops'[i].pc = "rejected"
       /\ FailSet
             => \E i \in Slots :
                   /\ ops[i].kind \in {"take", "delete"}
                   /\ ops[i].pc # "rejected"
                   /\ ops'[i].pc = "rejected"]_vars

\* C14: while deletePhoto(P) awaits Filesystem.deleteFile, the stored index
\* has already been written without P and the in-memory list has already
\* been replaced by the list without P.
C14_IndexAndMemoryBeforeBlobDelete ==
    \A i \in Slots :
        (ops[i].kind = "delete" /\ ops[i].pc = "deleteFile")
            => /\ ~Holds(IndexFilepaths, ops[i].target)
               /\ ~Holds(Filepaths(photos), ops[i].target)

\* the filepaths of the array that a Preferences.set request carries
RequestFilepaths(req) == [k \in 1..Len(req.value) |-> req.value[k][1][2]]

\* the filepath of the record of a capture written under fileName
FilepathOfCapture(fileName) ==
    IF platform = "hybrid" THEN DataDirUri \o fileName ELSE fileName

\* C15: the index write of a takePhoto is built from the in-memory list its
\* closure held when it was invoked (empty while loadSaved has not set the
\* list), never from the stored index: the array it hands to Preferences.set
\* is its own record followed by that list.  C15_Witness is the race: a
\* takePhoto invoked while loadSaved was in flight has resolved, and a record
\* that loadSaved found in the index, its blob still stored, is missing from
\* the index afterwards.
C15_IndexWriteFromClosureList ==
    [][\A i \in Slots :
          Resolves(i, "take")
              => /\ Len(pendingSets') = Len(pendingSets) + 1
                 /\ RequestFilepaths(pendingSets'[Len(pendingSets')])
                      = <<FilepathOfCapture(ops[i].fileName)>>
                          \o Filepaths(ops[i].photos)]_vars

C15_Witness ==
    /\ \E i, j \in Slots :
          /\ ops[i].kind = "load" /\ ops[i].pc = "resolved"
          /\ ops[j].kind = "take" /\ ops[j].pc = "resolved"
          /\ ops[j].photos = <<>>
    /\ pendingSets = <<>>
    /\ Len(IndexFilepaths) = 1
    /\ \E k \in 1..Len(photos) :
          /\ ~Holds(IndexFilepaths, photos[k].filepath)
          /\ ObjectOf(photos[k].filepath) \in DOMAIN fs

\* C16: a takePhoto that resolves sets the in-memory list to its own record
\* followed by the list its closure held when it was invoked, whatever the
\* in-memory list has become since.  C16_Witness is the lost update: two
\* takePhoto calls, the second invoked while the first was in flight, held
\* the same list; both have resolved and both blobs are stored, but the
\* in-memory list and the index hold one record more than that list, not two.
C16_ListFromClosureList ==
    [][\A i \in Slots :
          Resolves(i, "take")
              => photos' = <<SavedPhoto(ops[i].photo, ops[i].fileName)>>
                             \o ops[i].photos]_vars

C16_Witness ==
    /\ \E i, j \in Slots :
          /\ i # j
          /\ ops[i].kind = "take" /\ ops[i].pc = "resolved"
          /\ ops[j].kind = "take" /\ ops[j].pc = "resolved"
          /\ ops[j].over
          /\ ops[i].photos = ops[j].photos
          /\ Len(photos) = Len(ops[i].photos) + 1
    /\ pendingSets = <<>>
    /\ IndexFilepaths = Filepaths(photos)
    /\ Cardinality(DOMAIN fs) = Len(photos) + 1

\* C17: for the record of every capture, on either platform, the name that
\* deletePhoto derives from its filepath is the name the capture wrote the
\* blob under; deletePhoto asks the Filesystem to delete the object of its
\* target, and when that succeeds this object and no other is gone.
C17_DeleteNameIsCaptureName ==
    [][\A i \in Slots :
          /\ Resolves(i, "take")
                => DeleteFileName(Head(photos').filepath) = ops[i].fileName
          /\ (FreeSlot(i) /\ ops'[i].kind = "delete" /\ InFlight(ops'[i]))
                => ops'[i].fileName = ObjectOf(ops'[i].target)
          /\ Resolves(i, "delete")
                => /\ ObjectOf(ops[i].target) \in DOMAIN fs
                   /\ DOMAIN fs' = DOMAIN fs \ {ObjectOf(ops[i].target)}
                   /\ \A n \in DOMAIN fs' : fs'[n] = fs[n]]_vars

C17_Witness ==
    /\ \E i \in Slots : ops[i].kind = "delete" /\ ops[i].pc = "resolved"
    /\ platform = "hybrid"
    /\ DOMAIN fs # {}
    /\ Len(photos) = 1
    /\ ObjectOf(photos[1].filepath) \in DOMAIN fs

\* this step is the call of operation i of the given kind
Calls(i, kind) ==
    /\ ~InFlight(ops[i])
    /\ ops'[i].kind = kind /\ InFlight(ops'[i])

\* the records of a list whose filepath differs from the given one, in order
OtherRecords(list, filepath) ==
    LET Other(p) == p.filepath # filepath
    IN SelectSeq(list, Other)

\* the entries of a stored array whose filepath differs from the given
\* one, in order, read off the stored text
OtherEntries(text, filepath) ==
    LET Other(obj) == obj[1][2] # filepath
    IN SelectSeq(text, Other)

\* the array stored under "photos", as stored; empty when the key is absent
IndexValue ==
    IF PHOTO_STORAGE \in DOMAIN prefs THEN prefs[PHOTO_STORAGE] ELSE <<>>

\* the entries of sub are entries of text, in the order they have in text
KeptInOrder(sub, text) ==
    LET Kept(obj) == \E k \in 1..Len(sub) : sub[k] = obj
    IN SelectSeq(text, Kept) = sub

\* no object other than the one of the given filepath leaves the Blob Store
\* or changes in this step
OtherBlobsStay(filepath) ==
    \A n \in DOMAIN fs :
        n # ObjectOf(filepath) => n \in DOMAIN fs' /\ fs'[n] = fs[n]

\* C18 as stated: deletePhoto(P) changes nothing but P. Every index entry
\* whose filepath differs from P's is in the array that deletePhoto writes to
\* the index, in the same relative order and with the same fields; every such
\* in-memory record stays in the list likewise; no Blob Store object other
\* than P's is deleted.
C18_DeleteChangesNothingButP ==
    [][\A i \in Slots :
          /\ Calls(i, "delete")
                => KeptInOrder(OtherEntries(IndexValue, ops'[i].target),
                               pendingSets'[Len(pendingSets')].value)
          /\ Resolves(i, "delete")
                => /\ OtherRecords(photos', ops[i].target)
                        = OtherRecords(photos, ops[i].target)
                   /\ OtherBlobsStay(ops[i].target)]_vars

\* C18: deletePhoto(P) takes out of the in-memory list the records with P's
\* filepath and leaves every other record in place, in order and with its
\* fields; the array it hands to Preferences.set is that reduced in-memory
\* list, whatever the index held before; no Blob Store object other than P's
\* is deleted or changed while it runs.
C18_DeleteKeepsOtherRecordsInMemory ==
    [][\A i \in Slots :
          /\ Calls(i, "delete")
                => /\ Holds(Filepaths(photos), ops'[i].target)
                   /\ JSONParse(pendingSets'[Len(pendingSets')].value)
                        = OtherRecords(photos, ops'[i].target)
          /\ Resolves(i, "delete")
                => /\ photos' = OtherRecords(photos, ops[i].target)
                   /\ ~Holds(Filepaths(photos'), ops[i].target)
          /\ (ops[i].kind = "delete" /\ InFlight(ops[i]))
                => OtherBlobsStay(ops[i].target)]_vars

\* a deletePhoto on the web, after a reload, has resolved and its index write
\* is still on its way: the record that stays is in the index with the path
\* its capture stored and in the array on its way with the data URI that
\* loadSaved made
C18_Witness ==
    /\ platform = "web"
    /\ \E i \in Slots : ops[i].kind = "delete" /\ ops[i].pc = "resolved"
    /\ Len(pendingSets) = 1
    /\ Len(photos) = 1
    /\ JSONParse(pendingSets[1].value) = photos
    /\ \E k \in 1..Len(IndexValue) :
          /\ IndexFilepaths[k] = photos[1].filepath
          /\ IndexWebviewPath(k) # photos[1].webviewPath
    /\ SubSeq(photos[1].webviewPath, 1, Len(DataUriPrefix)) = DataUriPrefix

\* C19 as stated: with calls serialized by the caller, in every state where
\* no operation is in flight every filepath of the stored index has its
\* object in the Blob Store.
C19_NoDanglingIndexEntry ==
    NumInFlight = 0
        => \A k \in 1..Len(IndexFilepaths) :
              ObjectOf(IndexFilepaths[k]) \in DOMAIN fs

====
